---- MODULE Spec2Model ----
(***************************************************************************)
(* Day 19 (beacon scanner registration) of adventofcode2021:               *)
(* src/day19/src/lib.rs.  Coordinates, the plane turns of all_rotations,   *)
(* Scanner::rotate / move_by / can_align_to / align_to and the work-list   *)
(* loop of solve, as a state machine whose steps are the loop iterations   *)
(* of solve and of align_to.                                               *)
(***************************************************************************)
EXTENDS Integers, Sequences, FiniteSets, TLC

VARIABLES
    scanners,          \* solve's argument: the parsed input list
    aligned,           \* Vec<Scanner>, line 127
    aligning,          \* Vec<Scanner>, line 128
    pending,           \* Vec<&Scanner>, line 129
    skipped,           \* Vec<&Scanner>, line 132
    aligning_scanner,  \* popped reference scanner, line 131
    pending_scanner,   \* popped candidate, line 133
    scanner,           \* align_to's rotating copy, line 109
    planes,            \* how many items of all_rotations() align_to consumed
    ret,               \* value returned by the last align_to call
    result,            \* value returned by solve
    pc,                \* position in solve / align_to
    rounds,            \* history: iterations of the outer loop begun
    attempts,          \* history: calls of align_to made
    measure            \* a call of distance / manhattan_distance on its own

vars == <<scanners, aligned, aligning, pending, skipped, aligning_scanner,
          pending_scanner, scanner, planes, ret, result, pc, rounds,
          attempts, measure>>

----------------------------------------------------------------------------
(* Bounds of the model *)

MaxScanners == 3

----------------------------------------------------------------------------
(* Option<T> *)

None == <<>>
Some(v) == <<v>>
IsSome(o) == o # None
Unwrap(o) == o[1]

(* i32::abs *)
Abs(n) == IF n < 0 THEN -n ELSE n

----------------------------------------------------------------------------
(* struct Coordinates and enum Plane *)

Coord(x, y, z) == [x |-> x, y |-> y, z |-> z]

CoordinatesDefault == Coord(0, 0, 0)

Plane == {"XY", "XZ", "YZ"}

(* all_rotations without its last plane *)
all_rotations_short ==
    << "XY", "XY", "XY", "XZ", "XY", "XY", "XY", "XZ", "XY", "XY", "XY",
       "YZ", "XY", "XY", "XY", "XY", "YZ", "XY", "XY", "XY", "YZ", "XZ",
       "XZ", "XY", "XY" >>

all_rotations ==
    << "XY", "XY", "XY", "XZ", "XY", "XY", "XY", "XZ", "XY", "XY", "XY",
       "YZ", "XY", "XY", "XY", "XY", "YZ", "XY", "XY", "XY", "YZ", "XZ",
       "XZ", "XY", "XY", "XY" >>

(* distance taken from other to self *)
distance_reversed(self, other) ==
    Coord(self.x - other.x, self.y - other.y, self.z - other.z)

distance(self, other) ==
    Coord(other.x - self.x, other.y - self.y, other.z - self.z)

(* rotate with the sign of the XZ turn lost *)
rotate_unsigned_xz(self, plane) ==
    CASE plane = "XY" -> Coord(self.y, -self.x, self.z)
      [] plane = "XZ" -> Coord(self.z, self.y, self.x)
      [] plane = "YZ" -> Coord(self.x, self.z, -self.y)

rotate(self, plane) ==
    CASE plane = "XY" -> Coord(self.y, -self.x, self.z)
      [] plane = "XZ" -> Coord(self.z, self.y, -self.x)
      [] plane = "YZ" -> Coord(self.x, self.z, -self.y)

(* move_by that subtracts the shift *)
move_by_backwards(self, shift) ==
    Coord(self.x - shift.x, self.y - shift.y, self.z - shift.z)

move_by(self, shift) ==
    Coord(self.x + shift.x, self.y + shift.y, self.z + shift.z)

(* the distance summed without the absolute values *)
manhattan_distance_signed(self, other) ==
    (other.x - self.x) + (other.y - self.y) + (other.z - self.z)

manhattan_distance(self, other) ==
    Abs(other.x - self.x) + Abs(other.y - self.y) + Abs(other.z - self.z)

----------------------------------------------------------------------------
(* struct Scanner *)

Scanner(position, beacons) == [position |-> position, beacons |-> beacons]

(* rotate that loses the first component of every beacon *)
ScannerRotateFlattened(self, plane) ==
    Scanner(rotate(self.position, plane),
            {rotate(Coord(0, beacon.y, beacon.z), plane) :
                beacon \in self.beacons})

ScannerRotate(self, plane) ==
    Scanner(rotate(self.position, plane),
            {rotate(beacon, plane) : beacon \in self.beacons})

(* move_by that moves the beacons and leaves the position behind *)
ScannerMoveByBeaconsOnly(self, shift) ==
    Scanner(self.position,
            {move_by(beacon, shift) : beacon \in self.beacons})

ScannerMoveBy(self, shift) ==
    Scanner(move_by(self.position, shift),
            {move_by(beacon, shift) : beacon \in self.beacons})

(* One iteration order of a HashSet: the order is fixed for one set but not *)
(* specified; HashOrders gives the orders the model lets an iteration take. *)
RECURSIVE HashIter(_)
HashIter(set) ==
    IF set = {} THEN <<>>
    ELSE LET first == CHOOSE e \in set : TRUE
         IN  <<first>> \o HashIter(set \ {first})

Reversed(seq) == [i \in 1..Len(seq) |-> seq[Len(seq) + 1 - i]]

HashOrders(set) == {HashIter(set), Reversed(HashIter(set))}

(* The tally loop of can_align_to over my beacons (outer) and their        *)
(* beacons (inner): counter is the HashMap, the result is the first        *)
(* distance whose count reaches 12.                                        *)
(* a threshold of eleven *)
MinOverlapEleven == 12 - 1

MinOverlap == 12

(* the counter entry inserted as 0 instead of 1 *)
BumpFromZero(counter, d) ==
    IF d \in DOMAIN counter THEN [counter EXCEPT ![d] = @ + 1]
    ELSE counter @@ (d :> 0)

Bump(counter, d) ==
    IF d \in DOMAIN counter THEN [counter EXCEPT ![d] = @ + 1]
    ELSE counter @@ (d :> 1)

(* The inner iterator (their beacons) for one of my beacons: either the    *)
(* distance that reached the threshold, or the counter after the pass.     *)
(* examined is how many of their beacons the pass has taken.  The pass     *)
(* goes on while a beacon is left and the count is below the threshold.    *)
RECURSIVE TallyTheirs(_, _, _, _)
TallyTheirs(my_beacon, theirs, j, counter) ==
    LET d == distance(my_beacon, theirs[j])
        c == Bump(counter, d)
    IN  IF j <= Len(theirs) /\ c[d] < MinOverlap
        THEN TallyTheirs(my_beacon, theirs, j + 1, c)
        ELSE IF j > Len(theirs)
        THEN [found |-> None, counter |-> counter, examined |-> Len(theirs)]
        ELSE [found |-> Some(d), counter |-> c, examined |-> j]

(* The outer iterator: the loop returns from inside the pass that found a  *)
(* distance; examined counts the pairs taken from the flat_map in all.     *)
RECURSIVE Tally(_, _, _, _)
Tally(mine, theirs, i, counter) ==
    LET pass == TallyTheirs(mine[i], theirs, 1, counter)
    IN  IF i <= Len(mine) /\ ~IsSome(pass.found)
        THEN Tally(mine, theirs, i + 1, pass.counter)
        ELSE IF i > Len(mine)
        THEN [found |-> None, counter |-> counter,
              examined |-> Len(mine) * Len(theirs)]
        ELSE [found |-> pass.found, counter |-> pass.counter,
              examined |-> (i - 1) * Len(theirs) + pass.examined]

(* can_align_to with the iteration orders of self.beacons and other.beacons *)
can_align_to(mine, theirs) == Tally(mine, theirs, 1, <<>>).found

(* the number of planes all_rotations() yields *)
NumPlanesOneLess == Len(all_rotations) - 1

NumPlanes == Len(all_rotations)

----------------------------------------------------------------------------
(* Input scanners (Scanner::from_str: position at the origin, beacons in   *)
(* the scanner's own frame).  An input list is the report of one region.   *)
(* World is a cloud of beacons without symmetry.  SeenFrom(world, lo, hi,  *)
(* turns, pos) is what a scanner standing at pos, its frame turned by the  *)
(* planes in turns, reports of the beacons lo..hi of world.  All           *)
(* coordinates stay far inside the i32 range: no sum, difference or        *)
(* negation of the model overflows.                                        *)

World ==
    << Coord(1, 0, 2),  Coord(2, 3, 0),  Coord(3, 1, 5),  Coord(4, 6, 1),
       Coord(5, 2, 2),  Coord(6, 0, 4),  Coord(7, 5, 3),  Coord(8, 1, 0),
       Coord(9, 4, 6),  Coord(10, 2, 1), Coord(11, 6, 5), Coord(12, 3, 3),
       Coord(13, 0, 1), Coord(14, 5, 0), Coord(15, 1, 4) >>

Turned(c, turns) ==
    IF Len(turns) = 0 THEN c
    ELSE IF Len(turns) = 1 THEN rotate(c, turns[1])
    ELSE rotate(rotate(c, turns[1]), turns[2])

SeenFrom(world, lo, hi, turns, pos) ==
    Scanner(CoordinatesDefault,
            {Turned(distance(pos, world[i]), turns) : i \in lo..hi})

(* where a scanner stands, how its frame is turned and what it sees *)
Station(world, lo, hi, turns, pos) ==
    [world |-> world, lo |-> lo, hi |-> hi, turns |-> turns, pos |-> pos]

View(st) == SeenFrom(st.world, st.lo, st.hi, st.turns, st.pos)

WorldStations ==
    { Station(World, 1, 13, <<>>, Coord(0, 0, 0)),
      Station(World, 2, 14, <<"YZ", "YZ">>, Coord(20, -3, 7)),
      Station(World, 3, 15, <<"XZ", "XY">>, Coord(-5, 30, 2)) }

WorldScanners == {View(st) : st \in WorldStations}

(* A second region: beacons on a line, one unit apart.  Shifting the line  *)
(* by one unit still matches twelve of thirteen beacons, and so does       *)
(* turning it about its own direction.                                     *)
LineWorld == [i \in 1..14 |-> Coord(i, 1, 0)]

LineStations ==
    { Station(LineWorld, 1, 13, <<>>, Coord(0, 0, 0)),
      Station(LineWorld, 2, 14, <<"XY">>, Coord(4, -2, 9)) }

LineScanners == {View(st) : st \in LineStations}

Inputs == WorldScanners \cup LineScanners

(* the lists of at most n scanners taken from set *)
RECURSIVE SeqsUpTo(_, _)
SeqsUpTo(set, n) ==
    IF n = 0 THEN {<<>>}
    ELSE LET shorter == SeqsUpTo(set, n - 1)
         IN  shorter \cup {Append(s, e) : s \in {t \in shorter : Len(t) = n - 1},
                                          e \in set}

----------------------------------------------------------------------------
(* Vec *)

Push(vec, e) == Append(vec, e)
Last(vec) == vec[Len(vec)]
Front(vec) == SubSeq(vec, 1, Len(vec) - 1)

NoScanner == Scanner(CoordinatesDefault, {})

(* no call of distance or manhattan_distance outside solve *)
NoMeasure == <<>>

----------------------------------------------------------------------------
(* solve *)

Init ==
    /\ scanners \in SeqsUpTo(WorldScanners, MaxScanners)
                    \cup SeqsUpTo(LineScanners, MaxScanners)
    /\ aligned = <<>>
    /\ aligning = <<>>
    /\ pending = <<>>
    /\ skipped = <<>>
    /\ aligning_scanner = NoScanner
    /\ pending_scanner = NoScanner
    /\ scanner = NoScanner
    /\ planes = 0
    /\ ret = None
    /\ result = None
    /\ pc = "start"
    /\ rounds = 0
    /\ attempts = 0
    /\ measure = NoMeasure

(* an empty slice seeding an empty frontier instead of returning *)
SeedEmptyIntoLoop ==
    /\ pc = "start"
    /\ scanners = <<>>
    /\ aligning' = <<>>
    /\ pc' = "outer"
    /\ UNCHANGED <<scanners, aligned, pending, skipped, aligning_scanner,
                   pending_scanner, scanner, planes, ret, result>>
    /\ UNCHANGED <<rounds, attempts, measure>>

(* lines 127-129 with an empty slice: scanners.first()? returns None *)
SeedEmpty ==
    /\ pc = "start"
    /\ scanners = <<>>
    /\ result' = None
    /\ pc' = "done"
    /\ UNCHANGED <<scanners, aligned, aligning, pending, skipped,
                   aligning_scanner, pending_scanner, scanner, planes, ret>>
    /\ UNCHANGED <<rounds, attempts, measure>>

(* the first scanner seeding the frontier and staying in pending too *)
SeedKeepsFirstPending ==
    /\ pc = "start"
    /\ scanners # <<>>
    /\ aligned' = <<>>
    /\ aligning' = <<Head(scanners)>>
    /\ pending' = scanners
    /\ pc' = "outer"
    /\ UNCHANGED <<scanners, skipped, aligning_scanner, pending_scanner,
                   scanner, planes, ret, result>>
    /\ UNCHANGED <<rounds, attempts, measure>>

(* lines 127-129 *)
Seed ==
    /\ pc = "start"
    /\ scanners # <<>>
    /\ aligned' = <<>>
    /\ aligning' = <<Head(scanners)>>
    /\ pending' = Tail(scanners)
    /\ pc' = "outer"
    /\ UNCHANGED <<scanners, skipped, aligning_scanner, pending_scanner,
                   scanner, planes, ret, result>>
    /\ UNCHANGED <<rounds, attempts, measure>>

(* the reference read from the frontier without being removed from it *)
PopAligningPeek ==
    /\ pc = "outer"
    /\ aligning # <<>>
    /\ aligning_scanner' = Last(aligning)
    /\ aligning' = aligning
    /\ skipped' = <<>>
    /\ pc' = "inner"
    /\ UNCHANGED <<scanners, aligned, pending, pending_scanner, scanner,
                   planes, ret, result>>
    /\ rounds' = rounds + 1
    /\ UNCHANGED <<attempts, measure>>

(* line 131-132: while let Some(aligning_scanner) = aligning.pop() *)
PopAligning ==
    /\ pc = "outer"
    /\ aligning # <<>>
    /\ aligning_scanner' = Last(aligning)
    /\ aligning' = Front(aligning)
    /\ skipped' = <<>>
    /\ pc' = "inner"
    /\ UNCHANGED <<scanners, aligned, pending, pending_scanner, scanner,
                   planes, ret, result>>
    /\ rounds' = rounds + 1
    /\ UNCHANGED <<attempts, measure>>

(* the outer loop ending while the frontier still holds a scanner *)
LoopEndEarly ==
    /\ pc = "outer"
    /\ pc' = "check"
    /\ UNCHANGED <<scanners, aligned, aligning, pending, skipped,
                   aligning_scanner, pending_scanner, scanner, planes, ret,
                   result>>
    /\ UNCHANGED <<rounds, attempts, measure>>

(* line 131: aligning.pop() is None, the loop ends *)
LoopEnd ==
    /\ pc = "outer"
    /\ aligning = <<>>
    /\ pc' = "check"
    /\ UNCHANGED <<scanners, aligned, aligning, pending, skipped,
                   aligning_scanner, pending_scanner, scanner, planes, ret,
                   result>>
    /\ UNCHANGED <<rounds, attempts, measure>>

(* align_to beginning with a turn, before the first test *)
PopPendingRotateFirst ==
    /\ pc = "inner"
    /\ pending # <<>>
    /\ pending_scanner' = Last(pending)
    /\ pending' = Front(pending)
    /\ scanner' = ScannerRotate(Last(pending), all_rotations[1])
    /\ planes' = 1
    /\ pc' = "align"
    /\ UNCHANGED <<scanners, aligned, aligning, skipped, aligning_scanner,
                   ret, result>>
    /\ attempts' = attempts + 1
    /\ UNCHANGED <<rounds, measure>>

(* line 133-134 and 109-110: pop a pending scanner and enter align_to *)
PopPending ==
    /\ pc = "inner"
    /\ pending # <<>>
    /\ pending_scanner' = Last(pending)
    /\ pending' = Front(pending)
    /\ scanner' = Last(pending)
    /\ planes' = 0
    /\ pc' = "align"
    /\ UNCHANGED <<scanners, aligned, aligning, skipped, aligning_scanner,
                   ret, result>>
    /\ attempts' = attempts + 1
    /\ UNCHANGED <<rounds, measure>>

(* line 112: the values me.can_align_to(other) can return.  The order of   *)
(* the outer iterator is one order of my beacons, the inner iterator takes *)
(* either order of HashOrders: enough for two different translations to be *)
(* the first to reach the threshold.                                       *)
CanAlignTo(me, other) ==
    {can_align_to(HashIter(me.beacons), theirs) :
        theirs \in HashOrders(other.beacons)}

(* align_to turning the scanner it is called on instead of a clone of it *)
AlignStepInPlace ==
    /\ pc = "align"
    /\ \E shift \in CanAlignTo(scanner, aligning_scanner) :
          IF IsSome(shift)
          THEN /\ ret' = Some(ScannerMoveBy(scanner, Unwrap(shift)))
               /\ pc' = "ret"
               /\ UNCHANGED <<scanner, pending_scanner, planes>>
          ELSE IF planes < NumPlanes
          THEN /\ scanner' = ScannerRotate(scanner, all_rotations[planes + 1])
               /\ pending_scanner' = scanner'
               /\ planes' = planes + 1
               /\ UNCHANGED <<ret, pc>>
          ELSE /\ ret' = None
               /\ pc' = "ret"
               /\ UNCHANGED <<scanner, pending_scanner, planes>>
    /\ UNCHANGED <<scanners, aligned, aligning, pending, skipped,
                   aligning_scanner, result>>
    /\ UNCHANGED <<rounds, attempts, measure>>

(* lines 111-122, one iteration of the loop of align_to: return the moved  *)
(* scanner when can_align_to finds a shift, else rotate by the next plane, *)
(* else (no plane left) return None                                        *)
AlignStep ==
    /\ pc = "align"
    /\ \E shift \in CanAlignTo(scanner, aligning_scanner) :
          IF IsSome(shift)
          THEN /\ ret' = Some(ScannerMoveBy(scanner, Unwrap(shift)))
               /\ pc' = "ret"
               /\ UNCHANGED <<scanner, planes>>
          ELSE IF planes < NumPlanes
          THEN /\ scanner' = ScannerRotate(scanner, all_rotations[planes + 1])
               /\ planes' = planes + 1
               /\ UNCHANGED <<ret, pc>>
          ELSE /\ ret' = None
               /\ pc' = "ret"
               /\ UNCHANGED <<scanner, planes>>
    /\ UNCHANGED <<scanners, aligned, aligning, pending, skipped,
                   aligning_scanner, pending_scanner, result>>
    /\ UNCHANGED <<rounds, attempts, measure>>

(* lines 108-123: the values me.align_to(other) can return, the loop run   *)
(* from the orientation state k of align_to's copy sc                      *)
RECURSIVE AlignLoop(_, _, _)
AlignLoop(sc, other, k) ==
    LET found == {shift \in CanAlignTo(sc, other) : IsSome(shift)}
    IN  IF found = {} /\ k < NumPlanes
        THEN AlignLoop(ScannerRotate(sc, all_rotations[k + 1]), other, k + 1)
        ELSE IF found # {}
        THEN {Some(ScannerMoveBy(sc, Unwrap(shift))) : shift \in found}
        ELSE {None}

align_to(me, other) == AlignLoop(me, other, 0)

(* the placement replacing the frontier instead of joining it *)
PushAligningReplace ==
    /\ pc = "ret"
    /\ IsSome(ret)
    /\ aligning' = <<Unwrap(ret)>>
    /\ pc' = "inner"
    /\ UNCHANGED <<scanners, aligned, pending, skipped, aligning_scanner,
                   pending_scanner, scanner, planes, ret, result>>
    /\ UNCHANGED <<rounds, attempts, measure>>

(* lines 134-135: if let Some(scanner) = ... { aligning.push(scanner) } *)
PushAligning ==
    /\ pc = "ret"
    /\ IsSome(ret)
    /\ aligning' = Push(aligning, Unwrap(ret))
    /\ pc' = "inner"
    /\ UNCHANGED <<scanners, aligned, pending, skipped, aligning_scanner,
                   pending_scanner, scanner, planes, ret, result>>
    /\ UNCHANGED <<rounds, attempts, measure>>

(* a failed candidate put back on pending, to be tried again this round *)
PushSkippedBackToPending ==
    /\ pc = "ret"
    /\ ret = None
    /\ pending' = Push(pending, pending_scanner)
    /\ pc' = "inner"
    /\ UNCHANGED <<scanners, aligned, aligning, skipped, aligning_scanner,
                   pending_scanner, scanner, planes, ret, result>>
    /\ UNCHANGED <<rounds, attempts, measure>>

(* lines 136-137: else { skipped.push(pending_scanner) } *)
PushSkipped ==
    /\ pc = "ret"
    /\ ret = None
    /\ skipped' = Push(skipped, pending_scanner)
    /\ pc' = "inner"
    /\ UNCHANGED <<scanners, aligned, aligning, pending, aligning_scanner,
                   pending_scanner, scanner, planes, ret, result>>
    /\ UNCHANGED <<rounds, attempts, measure>>

(* the round ends without keeping the scanners that were skipped *)
EndRoundDropSkipped ==
    /\ pc = "inner"
    /\ pending = <<>>
    /\ aligned' = Push(aligned, aligning_scanner)
    /\ pending' = <<>>
    /\ pc' = "outer"
    /\ UNCHANGED <<scanners, aligning, skipped, aligning_scanner,
                   pending_scanner, scanner, planes, ret, result>>
    /\ UNCHANGED <<rounds, attempts, measure>>

(* lines 133, 140-141: pending.pop() is None; push the reference, swap *)
EndRound ==
    /\ pc = "inner"
    /\ pending = <<>>
    /\ aligned' = Push(aligned, aligning_scanner)
    /\ pending' = skipped
    /\ pc' = "outer"
    /\ UNCHANGED <<scanners, aligning, skipped, aligning_scanner,
                   pending_scanner, scanner, planes, ret, result>>
    /\ UNCHANGED <<rounds, attempts, measure>>

(* the sum of the beacon-set sizes of the scanners of vec[1..n] *)
RECURSIVE TotalBeacons(_, _)
TotalBeacons(vec, n) ==
    IF n = 0 THEN 0
    ELSE Cardinality(vec[n].beacons) + TotalBeacons(vec, n - 1)

(* the beacons counted scanner by scanner, without the HashSet *)
unique_beacons_no_set(vec) == TotalBeacons(vec, Len(vec))

(* lines 149-153 *)
unique_beacons(vec) ==
    Cardinality(UNION {vec[i].beacons : i \in 1..Len(vec)})

(* lines 155-163.  zip(1..) gives the scanner at position i of the vector  *)
(* (counted from 1) the index i, and aligned[index..] is the slice of the  *)
(* scanners after the first index ones: positions index + 1 and up.  The   *)
(* slice exists as long as index is at most the length.                    *)
zip_index_from_zero(i) == i - 1

zip_index(i) == i

SliceInBounds(vec) == \A i \in 1..Len(vec) : zip_index(i) <= Len(vec)

VisitedPairs(vec) ==
    {p \in (1..Len(vec)) \X (1..Len(vec)) : p[2] >= zip_index(p[1]) + 1}

PairDistances(vec) ==
    {manhattan_distance(vec[p[1]].position, vec[p[2]].position) :
        p \in VisitedPairs(vec)}

(* max() of an empty iterator is None *)
max_distance(vec) ==
    LET ds == PairDistances(vec)
    IN  IF ds = {} THEN None
        ELSE Some(CHOOSE m \in ds : \A d \in ds : d <= m)

(* lines 144-147 *)
ReturnNotAligned ==
    /\ pc = "check"
    /\ pending # <<>>
    /\ result' = None
    /\ pc' = "done"
    /\ UNCHANGED <<scanners, aligned, aligning, pending, skipped,
                   aligning_scanner, pending_scanner, scanner, planes, ret>>
    /\ UNCHANGED <<rounds, attempts, measure>>

(* lines 149-165 *)
ReturnResult ==
    /\ pc = "check"
    /\ pending = <<>>
    /\ result' = IF IsSome(max_distance(aligned))
                 THEN Some(<<unique_beacons(aligned),
                             Unwrap(max_distance(aligned))>>)
                 ELSE None
    /\ pc' = "done"
    /\ UNCHANGED <<scanners, aligned, aligning, pending, skipped,
                   aligning_scanner, pending_scanner, scanner, planes, ret>>
    /\ UNCHANGED <<rounds, attempts, measure>>

Next ==
    \/ SeedEmpty
    \/ Seed
    \/ PopAligning
    \/ LoopEnd
    \/ PopPending
    \/ AlignStep
    \/ PushAligning
    \/ PushSkipped
    \/ EndRound
    \/ ReturnNotAligned
    \/ ReturnResult

Spec == Init /\ [][Next]_vars

----------------------------------------------------------------------------
(* Orientations.  An orientation is written as the images of the three     *)
(* unit vectors; Orientation[k] is the one align_to has reached after k    *)
(* plane turns (lines 110-117: the turns accumulate in scanner).           *)

UnitX == Coord(1, 0, 0)
UnitY == Coord(0, 1, 0)
UnitZ == Coord(0, 0, 1)

Identity == <<UnitX, UnitY, UnitZ>>

(* the orientation m followed by a turn in plane *)
TurnOf(m, plane) ==
    <<rotate(m[1], plane), rotate(m[2], plane), rotate(m[3], plane)>>

(* the orientation states in the order align_to reaches them, one more    *)
(* turn applied to the last state until every plane is used               *)
RECURSIVE OrientationsFrom(_)
OrientationsFrom(states) ==
    IF Len(states) > NumPlanes THEN states
    ELSE OrientationsFrom(
            Append(states,
                   TurnOf(states[Len(states)], all_rotations[Len(states)])))

Orientation ==
    LET states == OrientationsFrom(<<Identity>>)
    IN  [k \in 0..NumPlanes |-> states[k + 1]]

(* the image of c under the orientation m *)
Oriented(m, c) ==
    Coord(c.x * m[1].x + c.y * m[2].x + c.z * m[3].x,
          c.x * m[1].y + c.y * m[2].y + c.z * m[3].y,
          c.x * m[1].z + c.y * m[2].z + c.z * m[3].z)

OrientedSet(m, set) == {Oriented(m, c) : c \in set}

(* The 24 proper axis-aligned rotations, stated without the plane turns:   *)
(* each unit vector goes to a signed unit vector and the determinant is 1. *)
SignedUnits ==
    {Coord(1, 0, 0), Coord(-1, 0, 0), Coord(0, 1, 0), Coord(0, -1, 0),
     Coord(0, 0, 1), Coord(0, 0, -1)}

Det(m) ==
      m[1].x * (m[2].y * m[3].z - m[3].y * m[2].z)
    - m[2].x * (m[1].y * m[3].z - m[3].y * m[1].z)
    + m[3].x * (m[1].y * m[2].z - m[2].y * m[1].z)

ProperRotations ==
    {m \in SignedUnits \X SignedUnits \X SignedUnits : Det(m) = 1}

(* how many beacons of set a, moved by t, are beacons of set b *)
Matches(a, b, t) ==
    Cardinality({c \in a : Coord(c.x + t.x, c.y + t.y, c.z + t.z) \in b})

(* n elements of set (all of them when it has fewer) *)
RECURSIVE Pick(_, _)
Pick(set, n) ==
    IF n <= 0 \/ set = {} THEN {}
    ELSE LET e == CHOOSE c \in set : TRUE
         IN  {e} \cup Pick(set \ {e}, n - 1)

(* Some translation puts at least twelve beacons of a on beacons of b.     *)
(* A translation that matches twelve beacons of a misses at most           *)
(* |a| - 12 of them, so it matches one of any |a| - 11 beacons of a: the   *)
(* translations q - p with p among |a| - 11 beacons of a are all there is  *)
(* to try.                                                                 *)
Translatable(a, b) ==
    \E p \in Pick(a, Cardinality(a) - 11), q \in b :
        Matches(a, b, Coord(q.x - p.x, q.y - p.y, q.z - p.z)) >= 12

(* some proper rotation and translation put at least twelve beacons of p   *)
(* on beacons of s                                                         *)
Overlaps(p, s) ==
    \E m \in ProperRotations :
        Translatable(OrientedSet(m, p.beacons), s.beacons)

(* the overlap relation on the input scanners *)
InputOverlap == [p \in Inputs, s \in Inputs |-> Overlaps(p, s)]

Range(vec) == {vec[i] : i \in 1..Len(vec)}

(* the shift applied by the align_to call that returned r from scanner *)
ShiftOf(r) == distance(scanner.position, r.position)

----------------------------------------------------------------------------
(* Properties of solve *)

(* C1: for every non-empty input, when the work-list loop ends with the    *)
(* pending pool empty, solve returns Some and aligned holds one placed     *)
(* scanner per input scanner.                                              *)
C1_PendingEmptyReturnsSome ==
    (pc = "done" /\ scanners # <<>> /\ pending = <<>>)
        => (IsSome(result) /\ Len(aligned) = Len(scanners))

(* C2: given exactly one scanner with N beacons, solve returns Some((N, 0)) *)
C2_SingleScanner ==
    (pc = "done" /\ Len(scanners) = 1)
        => result = Some(<<Cardinality(scanners[1].beacons), 0>>)

(* C3: with at least two scanners, if some input scanner overlaps no other *)
(* input scanner (fewer than twelve coinciding beacons under every proper  *)
(* rotation and translation), solve ends with pending non-empty and        *)
(* returns None.                                                           *)
Isolated(i) ==
    \A j \in 1..Len(scanners) :
        j # i => ~InputOverlap[scanners[i], scanners[j]]

C3_DisconnectedReturnsNone ==
    (pc = "done" /\ Len(scanners) >= 2 /\ \E i \in 1..Len(scanners) : Isolated(i))
        => (pending # <<>> /\ result = None)

C3_Witness ==
    /\ pc = "done"
    /\ Len(scanners) = 3
    /\ Len(aligned) = 2
    /\ Len(pending) = 1
    /\ result = None
    /\ \E i \in 1..Len(scanners) : Isolated(i)

(* C4: with an empty list solve returns None in its first step, without    *)
(* entering the work-list loop; a disconnected input returns the same None *)
C4_EmptyInputReturnsNone ==
    [][ /\ (pc = "start" /\ scanners = <<>>)
            => (pc' = "done" /\ result' = None /\ aligned' = <<>>
                /\ aligning' = <<>>)
        /\ (pc = "check" /\ pending # <<>>)
            => (pc' = "done" /\ result' = None) ]_vars

C4_Witness == pc = "done" /\ scanners = <<>> /\ result = None /\ aligned = <<>>

----------------------------------------------------------------------------
(* Properties of align_to and can_align_to *)

(* C5: when some proper rotation and translation put at least twelve       *)
(* beacons of the candidate on beacons of the reference, align_to returns  *)
(* Some; it returns None only when there is no such pair.                  *)
C5_AlignToComplete ==
    (pc = "ret" /\ ret = None) => ~Overlaps(pending_scanner, aligning_scanner)

C5_Witness ==
    /\ pc = "ret"
    /\ IsSome(ret)
    /\ planes = NumPlanes
    /\ Overlaps(pending_scanner, aligning_scanner)

(* C6: when align_to returns Some(R), one orientation r reached by the     *)
(* plane turns and one translation t give R.beacons = r(P.beacons) + t and *)
(* R.position = r(P.position) + t, and at least twelve beacons of R are    *)
(* beacons of the reference.                                               *)
PlacedBy(p, r, k) ==
    LET t == distance(Oriented(Orientation[k], p.position), r.position)
    IN  r.beacons = {move_by(Oriented(Orientation[k], b), t) : b \in p.beacons}

C6_AlignToSound ==
    (pc = "ret" /\ IsSome(ret))
        => /\ \E k \in 0..NumPlanes : PlacedBy(pending_scanner, Unwrap(ret), k)
           /\ Cardinality(Unwrap(ret).beacons \cap aligning_scanner.beacons) >= 12

C6_Witness ==
    /\ pc = "ret"
    /\ IsSome(ret)
    /\ planes > 0
    /\ Unwrap(ret).position # CoordinatesDefault
    /\ Cardinality(Unwrap(ret).beacons \cap aligning_scanner.beacons) = 12

(* C7: the 27 orientation states align_to goes through (the unrotated one  *)
(* and the 26 cumulative plane turns) contain each of the 24 proper        *)
(* rotations, and exactly three states repeat an earlier one.              *)
OrientationStates == {Orientation[k] : k \in 0..NumPlanes}

RepeatedStates ==
    {k \in 1..NumPlanes : \E j \in 0..(k - 1) : Orientation[j] = Orientation[k]}

C7_AllRotationsCover ==
    pc = "align"
        => /\ scanner.beacons
                = OrientedSet(Orientation[planes], pending_scanner.beacons)
           /\ NumPlanes + 1 = 27
           /\ OrientationStates = ProperRotations
           /\ Cardinality(ProperRotations) = 24
           /\ Cardinality(RepeatedStates) = 3

C7_Witness ==
    /\ pc = "align"
    /\ planes = NumPlanes
    /\ scanner.beacons
         = OrientedSet(Orientation[NumPlanes], pending_scanner.beacons)

(* C8 as stated: one align_to call tries exactly the 24 distinct           *)
(* orientations, none twice and none omitted.                              *)
C8_TwentyFourTriedOnce ==
    /\ pc = "align" => \A j \in 0..(planes - 1) : Orientation[j] # Orientation[planes]
    /\ (pc = "ret" /\ ret = None)
           => /\ planes + 1 = 24
              /\ {Orientation[k] : k \in 0..planes} = ProperRotations

(* C8 amended: an align_to call that finds no alignment tries 27           *)
(* orientation states, the identity first: each of the 24 distinct         *)
(* orientations is tried, none is omitted, and three of them are tried a   *)
(* second time.                                                            *)
C8_AllTriedThreeTwice ==
    (pc = "ret" /\ ret = None)
        => /\ planes + 1 = 27
           /\ Orientation[0] = Identity
           /\ \A m \in ProperRotations : \E k \in 0..planes : Orientation[k] = m
           /\ \A k \in 0..planes : Orientation[k] \in ProperRotations
           /\ {k \in 1..planes : \E j \in 0..(k - 1) : Orientation[j] = Orientation[k]}
                 = {16, 21, 22}

C8_Witness ==
    /\ pc = "ret"
    /\ ret = None
    /\ planes = NumPlanes
    /\ scanner.beacons # pending_scanner.beacons

(* C9: can_align_to returns Some(t) exactly when some translation has at   *)
(* least twelve pairs (a, b) with b - a equal to it, and the returned t is *)
(* such a translation; with at most eleven pairs for every translation it  *)
(* returns None (align_to goes on to the next plane or gives up).          *)
C9_CanAlignToThreshold ==
    [][ pc = "align" =>
          IF Translatable(scanner.beacons, aligning_scanner.beacons)
          THEN /\ pc' = "ret"
               /\ IsSome(ret')
               /\ Matches(scanner.beacons, aligning_scanner.beacons,
                          ShiftOf(Unwrap(ret'))) >= 12
          ELSE \/ pc' = "align" /\ planes' = planes + 1
               \/ pc' = "ret" /\ ret' = None ]_vars

C9_Witness ==
    /\ pc = "ret"
    /\ IsSome(ret)
    /\ Matches(scanner.beacons, aligning_scanner.beacons, ShiftOf(Unwrap(ret))) = 12
    /\ \E p \in scanner.beacons, q \in aligning_scanner.beacons :
          /\ distance(p, q) # ShiftOf(Unwrap(ret))
          /\ Matches(scanner.beacons, aligning_scanner.beacons, distance(p, q)) >= 12

(* C10: on success the first component of the result is the number of      *)
(* distinct coordinates in the union of the beacon sets of aligned, and it *)
(* is at most the sum of the input scanners' beacon-set sizes.             *)
C10_UniqueBeaconCount ==
    (pc = "done" /\ IsSome(result))
        => /\ Unwrap(result)[1]
                = Cardinality(UNION {s.beacons : s \in Range(aligned)})
           /\ Unwrap(result)[1] <= TotalBeacons(scanners, Len(scanners))

C10_Witness ==
    /\ pc = "done"
    /\ IsSome(result)
    /\ Len(scanners) = 3
    /\ Unwrap(result)[1] = 15
    /\ Unwrap(result)[1] < TotalBeacons(scanners, Len(scanners))


(* C11: on success the second component of the result is the largest       *)
(* Manhattan distance between the positions of two different scanners of   *)
(* aligned; the pairs visited are exactly the pairs i < j (none skipped,   *)
(* none of a scanner with itself) and every slice index is in bounds.      *)
UnorderedPairs(n) == {p \in (1..n) \X (1..n) : p[1] < p[2]}

AxisSum(a, b) ==
    Abs(a.x - b.x) + Abs(a.y - b.y) + Abs(a.z - b.z)

C11_MaxPairDistance ==
    (pc = "done" /\ IsSome(result)) =>
        LET n == Len(aligned)
            m == Unwrap(result)[2]
        IN  /\ SliceInBounds(aligned)
            /\ VisitedPairs(aligned) = UnorderedPairs(n)
            /\ \A p \in UnorderedPairs(n) :
                 AxisSum(aligned[p[1]].position, aligned[p[2]].position) <= m
            /\ \E p \in UnorderedPairs(n) :
                 AxisSum(aligned[p[1]].position, aligned[p[2]].position) = m

C11_Witness ==
    /\ pc = "done"
    /\ IsSome(result)
    /\ Len(aligned) = 3
    /\ Unwrap(result)[2] > 0
    /\ \E p \in UnorderedPairs(3) :
         AxisSum(aligned[p[1]].position, aligned[p[2]].position)
             < Unwrap(result)[2]


(* What the geometry of a region fixes, whatever the order of the work:    *)
(* the stations reachable from the seed's over links of twelve or more     *)
(* common beacons, every reachable station and its beacons expressed in    *)
(* the seed's frame, and (when all are reachable) the number of beacons    *)
(* seen and the largest distance between two stations.                     *)
StationOf(s) == CHOOSE st \in WorldStations \cup LineStations : View(st) = s

Linked(a, b) == Cardinality((a.lo..a.hi) \cap (b.lo..b.hi)) >= 12

RECURSIVE Reach(_, _)
Reach(from, all) ==
    LET more == from \cup {s \in all : \E r \in from : Linked(r, s)}
    IN  IF more = from THEN from ELSE Reach(more, all)

PlacedIn(seed, st) ==
    Scanner(Turned(distance(seed.pos, st.pos), seed.turns),
            SeenFrom(st.world, st.lo, st.hi, seed.turns, seed.pos).beacons)

ExpectedOutcome(first, others) ==
    LET seed == StationOf(first)
        all == {seed} \cup {StationOf(s) : s \in others}
        reached == Reach({seed}, all)
        placed == {PlacedIn(seed, st) : st \in reached}
        ds == {AxisSum(a.pos, b.pos) : a \in all, b \in all}
    IN  [placed |-> placed,
         result |-> IF reached # all THEN None
                    ELSE Some(<<Cardinality(UNION {p.beacons : p \in placed}),
                               CHOOSE m \in ds : \A d \in ds : d <= m>>)]

Qualifying(a, b) ==
    {t \in {Coord(q.x - p.x, q.y - p.y, q.z - p.z) :
                p \in Pick(a, Cardinality(a) - 11), q \in b} :
        Matches(a, b, t) >= 12}

Plus(c, t) == Coord(c.x + t.x, c.y + t.y, c.z + t.z)

(* every placement of p against s that some qualifying orientation and     *)
(* translation gives, in whatever order they are looked for                *)
Placements(p, s) ==
    UNION {{Scanner(Plus(Oriented(m, p.position), t),
                    {Plus(c, t) : c \in OrientedSet(m, p.beacons)}) :
               t \in Qualifying(OrientedSet(m, p.beacons), s.beacons)} :
           m \in ProperRotations}

(* C13 as stated: whichever qualifying orientation and translation is      *)
(* accepted, the placement is the one the sequential search of align_to    *)
(* returned.                                                               *)
C13_AnyChoiceSamePlacement ==
    (pc = "ret" /\ IsSome(ret)) =>
        Placements(pending_scanner, aligning_scanner) = {Unwrap(ret)}

(* C13, amended: so it is for a candidate whose beacons have no symmetry;  *)
(* the orientation states that all_rotations repeats give the placement    *)
(* of their first occurrence.                                              *)
C13_AnyChoiceSamePlacementAsymmetric ==
    (pc = "ret" /\ IsSome(ret) /\ pending_scanner \in WorldScanners) =>
        Placements(pending_scanner, aligning_scanner) = {Unwrap(ret)}

(* a placement found after turning, against a reference that is itself a   *)
(* placed (moved) scanner                                                  *)
C13_Witness ==
    /\ pc = "ret"
    /\ IsSome(ret)
    /\ pending_scanner \in WorldScanners
    /\ planes > 0
    /\ aligning_scanner.position # CoordinatesDefault
    /\ Placements(pending_scanner, aligning_scanner) = {Unwrap(ret)}


(* C14: an alignment attempt changes none of the scanners it is given.     *)
(* The input list never changes; while align_to runs, the candidate, the   *)
(* reference and the four pools stay as they are (the turns and the move   *)
(* are made on align_to's own copy and on the returned value); the         *)
(* scanners waiting in pending and skipped, and the candidate after its    *)
(* attempt, are still the input scanners, unturned and unmoved.            *)
C14_AttemptsLeaveScannersAlone ==
    [][ /\ scanners' = scanners
        /\ (pc = "align") =>
              /\ pending_scanner' = pending_scanner
              /\ aligning_scanner' = aligning_scanner
              /\ UNCHANGED <<aligned, aligning, pending, skipped>>
        /\ (pc = "ret") =>
              /\ pending_scanner' = pending_scanner
              /\ aligning_scanner' = aligning_scanner
              /\ aligned' = aligned
        /\ (pc' \in {"align", "ret"}) =>
              pending_scanner' \in Range(scanners')
        /\ Range(pending') \cup Range(skipped') \subseteq Range(scanners')
      ]_vars

(* an attempt that turned its copy and returned a placement, against a     *)
(* reference that was itself placed by a move                              *)
C14_Witness ==
    /\ pc = "ret"
    /\ IsSome(ret)
    /\ planes > 0
    /\ scanner # pending_scanner
    /\ Unwrap(ret) # pending_scanner
    /\ pending_scanner \in Range(scanners)
    /\ aligning_scanner.position # CoordinatesDefault
    /\ aligned # <<>>


Zero == Coord(0, 0, 0)

(* no translation but the zero one puts twelve beacons of s on beacons of  *)
(* s (so s has at least twelve beacons)                                    *)
NoSelfShift(s) == Qualifying(s.beacons, s.beacons) = {Zero}

(* C15 as stated: S.align_to(S) returns S itself, found in the identity    *)
(* orientation: for a candidate equal to its reference inside solve, and   *)
(* for every scanner of aligned when solve is done.                        *)
C15_SelfAlignIsIdentity ==
    /\ (pc = "ret" /\ pending_scanner = aligning_scanner) =>
           ret = Some(pending_scanner) /\ planes = 0
    /\ (pc = "done") =>
           \A s \in Range(aligned) : align_to(s, s) = {Some(s)}

(* C15, amended: so it is when no non-zero translation puts twelve beacons *)
(* of S on beacons of S.                                                   *)
C15_SelfAlignIsIdentityNoSelfShift ==
    /\ (pc = "ret" /\ pending_scanner = aligning_scanner
                   /\ NoSelfShift(pending_scanner)) =>
           ret = Some(pending_scanner) /\ planes = 0
    /\ (pc = "done") =>
           \A s \in Range(aligned) :
               NoSelfShift(s) => align_to(s, s) = {Some(s)}

(* solve is done on a list that holds its first scanner twice (the copy    *)
(* was aligned to the seed, that is to itself) and placed a scanner away   *)
(* from the origin, which aligns to itself as well                         *)
C15_Witness ==
    /\ pc = "done"
    /\ IsSome(result)
    /\ Head(scanners) \in Range(Tail(scanners))
    /\ NoSelfShift(Head(scanners))
    /\ Cardinality(Range(aligned)) < Len(aligned)
    /\ \E s \in Range(aligned) :
          NoSelfShift(s) /\ s.position # Zero /\ align_to(s, s) = {Some(s)}


Dot(a, b) == a.x * b.x + a.y * b.y + a.z * b.z

(* the point that the orientation m sends to c *)
InverseOriented(m, c) == Coord(Dot(c, m[1]), Dot(c, m[2]), Dot(c, m[3]))

(* s under the inverse of the transform (orientation m, then shift t) *)
InverseTransformed(m, t, s) ==
    Scanner(InverseOriented(m, distance(t, s.position)),
            {InverseOriented(m, distance(t, c)) : c \in s.beacons})

(* C16 as stated: when P.align_to(S) returned Some(R), S.align_to(R)       *)
(* returns Some as well, and what it returns is S under the inverse of     *)
(* the transform (orientation, then shift) that made R of P.               *)
C16_RealignInverseTransform ==
    (pc = "ret" /\ IsSome(ret)) =>
        align_to(aligning_scanner, Unwrap(ret)) =
            {Some(InverseTransformed(Orientation[planes],
                                     ShiftOf(Unwrap(ret)),
                                     aligning_scanner))}

(* C16, amended: S.align_to(R) returns Some, in the identity orientation:  *)
(* S and R share twelve beacons as they are, the result is S moved by a    *)
(* qualifying translation, and it is S itself when the zero translation    *)
(* is the only one that qualifies.                                         *)
C16_RealignIdentity ==
    (pc = "ret" /\ IsSome(ret)) =>
        LET S == aligning_scanner
            R == Unwrap(ret)
        IN  /\ Matches(S.beacons, R.beacons, Zero) >= 12
            /\ \A o \in align_to(S, R) :
                 /\ IsSome(o)
                 /\ Unwrap(o) = ScannerMoveBy(S, distance(S.position,
                                                  Unwrap(o).position))
                 /\ distance(S.position, Unwrap(o).position)
                        \in Qualifying(S.beacons, R.beacons)
                 /\ (Qualifying(S.beacons, R.beacons) = {Zero})
                        => Unwrap(o) = S

(* P was placed after turning, by a non-zero shift, against a reference    *)
(* away from the origin; the reference re-aligned to the placement is the  *)
(* reference itself, not its image under the inverse transform             *)
C16_Witness ==
    /\ pc = "ret"
    /\ IsSome(ret)
    /\ planes > 0
    /\ ShiftOf(Unwrap(ret)) # Zero
    /\ aligning_scanner.position # Zero
    /\ align_to(aligning_scanner, Unwrap(ret)) = {Some(aligning_scanner)}
    /\ InverseTransformed(Orientation[planes], ShiftOf(Unwrap(ret)),
                          aligning_scanner) # aligning_scanner


SquaredDistance(a, b) ==
      (b.x - a.x) * (b.x - a.x) + (b.y - a.y) * (b.y - a.y)
    + (b.z - a.z) * (b.z - a.z)

(* C17: every orientation that align_to reaches by composing plane turns   *)
(* keeps the Manhattan distance and the squared Euclidean distance of      *)
(* every two beacons.  The turned copy holds the images of the             *)
(* candidate's beacons under the composed turns.                           *)
C17_RotationIsometry ==
    (pc = "align") =>
        LET m == Orientation[planes]
        IN  /\ scanner.beacons = OrientedSet(m, pending_scanner.beacons)
            /\ \A p, q \in pending_scanner.beacons :
                 /\ manhattan_distance(Oriented(m, p), Oriented(m, q))
                        = manhattan_distance(p, q)
                 /\ SquaredDistance(Oriented(m, p), Oriented(m, q))
                        = SquaredDistance(p, q)

(* the last orientation state, a turned copy with thirteen beacons at      *)
(* various distances                                                       *)
C17_Witness ==
    /\ pc = "align"
    /\ planes = NumPlanes
    /\ Orientation[planes] # Identity
    /\ scanner.beacons # pending_scanner.beacons
    /\ Cardinality(scanner.beacons) = 13
    /\ Cardinality({manhattan_distance(p, q) :
                       p \in scanner.beacons, q \in scanner.beacons}) > 3


InRound == pc \in {"inner", "align", "ret"}

InAttempt == pc \in {"align", "ret"}

(* C18: one round of the registration engine.  The round pops one scanner  *)
(* S from aligning; every pop from pending starts one align_to call        *)
(* against S; the call's success goes (as the returned value) to aligning  *)
(* and its failure (the candidate itself) to skipped, never back to the    *)
(* pending the round is emptying; S is appended to aligned only when that  *)
(* pending is empty, and skipped becomes the next pending.  Inside a round *)
(* every input scanner is in exactly one place: aligned, aligning,         *)
(* pending, skipped, under attempt, or the reference.                      *)
C18_OneRound ==
    [][ /\ InRound =>
              Len(aligned) + Len(aligning) + Len(pending) + Len(skipped)
                  + (IF InAttempt THEN 1 ELSE 0) + 1 = Len(scanners)
        /\ (pc = "outer" /\ aligning # <<>>) =>
              /\ pc' = "inner"
              /\ aligning_scanner' = Last(aligning)
              /\ aligning' = Front(aligning)
              /\ UNCHANGED <<aligned, pending>>
        /\ (pc = "inner" /\ pending # <<>>) =>
              /\ pc' = "align"
              /\ pending_scanner' = Last(pending)
              /\ pending' = Front(pending)
              /\ attempts' = attempts + 1
              /\ UNCHANGED <<aligned, aligning, skipped, aligning_scanner>>
        /\ (pc = "align") =>
              /\ pc' \in {"align", "ret"}
              /\ attempts' = attempts
              /\ UNCHANGED <<aligned, aligning, pending, skipped,
                             aligning_scanner, pending_scanner>>
              /\ (pc' = "ret") =>
                    ret' \in align_to(pending_scanner, aligning_scanner)
        /\ (pc = "ret" /\ IsSome(ret)) =>
              /\ pc' = "inner"
              /\ aligning' = Append(aligning, Unwrap(ret))
              /\ UNCHANGED <<aligned, pending, skipped, aligning_scanner>>
        /\ (pc = "ret" /\ ret = None) =>
              /\ pc' = "inner"
              /\ skipped' = Append(skipped, pending_scanner)
              /\ UNCHANGED <<aligned, aligning, pending, aligning_scanner>>
        /\ (pc = "inner" /\ pending = <<>>) =>
              /\ pc' = "outer"
              /\ aligned' = Append(aligned, aligning_scanner)
              /\ pending' = skipped
              /\ aligning' = aligning
      ]_vars

(* the end of a round in which one candidate was placed and another one    *)
(* skipped: the reference is about to be appended to aligned               *)
C18_Witness ==
    /\ pc = "inner"
    /\ pending = <<>>
    /\ Len(skipped) = 1
    /\ Len(aligning) = 1
    /\ aligned = <<>>
    /\ attempts = 2
    /\ Len(scanners) = 3


(* the attempts of the first r rounds of n scanners: round i starts with   *)
(* at most n - i scanners pending                                          *)
RECURSIVE AttemptBudget(_, _)
AttemptBudget(n, r) ==
    IF r = 0 THEN 0 ELSE (IF n > r THEN n - r ELSE 0) + AttemptBudget(n, r - 1)

(* A variant of solve: a natural number that every step makes smaller.    *)
(* A round left outweighs all the attempts of a round, an attempt left     *)
(* outweighs all the steps of one align_to call.                           *)
AttemptWeight == NumPlanes + 3

RoundWeight == (Len(scanners) + 1) * AttemptWeight

Variant ==
    (Len(scanners) + 1 - rounds) * RoundWeight
    + CASE pc = "start" -> RoundWeight + 3
        [] pc = "outer" -> 2
        [] pc = "inner" -> Len(pending) * AttemptWeight + 3
        [] pc = "align" -> Len(pending) * AttemptWeight + 3
                              + (NumPlanes - planes) + 2
        [] pc = "ret"   -> Len(pending) * AttemptWeight + 3 + 1
        [] pc = "check" -> 1
        [] pc = "done"  -> 0

LoopBounds ==
    LET n == Len(scanners)
    IN  /\ rounds <= n
        /\ attempts <= AttemptBudget(n, rounds)
        /\ 2 * attempts <= n * (n - 1) \/ n = 0
        /\ rounds = Len(aligned) + (IF InRound THEN 1 ELSE 0)

(* C19: the work-list loop terminates: every step of solve makes the       *)
(* variant smaller and the variant never goes below zero.  For n input     *)
(* scanners the outer loop begins at most n rounds, round i makes at most  *)
(* n - i align_to calls (one per scanner pending, against that round's     *)
(* reference only), and the calls number at most n(n-1)/2 in all.          *)
C19_LoopTerminates ==
    [][ /\ Variant' < Variant
        /\ Variant' >= 0
        /\ LoopBounds
        /\ LoopBounds'
        /\ (pc = "inner" /\ pc' = "align") =>
              /\ attempts' = attempts + 1
              /\ Len(pending') = Len(pending) - 1
        /\ (InRound /\ InRound') => Len(pending') <= Len(pending)
      ]_vars

(* three scanners in a chain: three rounds and 2 + 1 + 0 calls             *)
C19_Witness ==
    /\ pc = "done"
    /\ Len(scanners) = 3
    /\ rounds = 3
    /\ attempts = 3


(* the input scanners reachable from the scanners of from over overlaps *)
RECURSIVE OverlapReach(_, _)
OverlapReach(from, all) ==
    LET more == from \cup {p \in all : \E s \in from : InputOverlap[p, s]}
    IN  IF more = from THEN from ELSE OverlapReach(more, all)

(* C20: when the loop has ended with pending not empty, no scanner left in *)
(* pending can be aligned to any scanner of aligned: no proper rotation    *)
(* and translation puts twelve of its beacons on beacons of a placed       *)
(* scanner, and align_to returns None for every such pair.  solve returns  *)
(* None, and the scanners left are not reachable from the first scanner    *)
(* over overlaps between input scanners.                                   *)
C20_LeftoverCannotAlign ==
    (pc \in {"check", "done"} /\ pending # <<>>) =>
        /\ aligning = <<>>
        /\ \A p \in Range(pending), s \in Range(aligned) : ~Overlaps(p, s)
        /\ (pc = "check") =>
              \A p \in Range(pending), s \in Range(aligned) :
                  align_to(p, s) = {None}
        /\ (pc = "done") => result = None
        /\ Range(pending) \cap
               OverlapReach({Head(scanners)}, Range(scanners)) = {}

(* two scanners were placed and a third one, tried against each of them,   *)
(* is left                                                                 *)
C20_Witness ==
    /\ pc = "done"
    /\ result = None
    /\ Len(pending) = 1
    /\ Len(aligned) = 2
    /\ attempts = 3
    /\ \A s \in Range(aligned) : ~Overlaps(pending[1], s)


(* r is what some proper rotation makes of the input scanner p, carried    *)
(* to the position of r: r.position is where p's own origin lies           *)
PlacedViewOf(r, p) ==
    \E m \in ProperRotations :
        r.beacons = {Plus(c, r.position) : c \in OrientedSet(m, p.beacons)}

(* C21: the first input scanner is the only scanner in aligning when the   *)
(* loop starts and all the others are in pending; from the end of the      *)
(* first round on it is the first scanner of aligned, with its input       *)
(* beacons and its position at the origin; every scanner of aligned is an  *)
(* input scanner turned and carried to its position in that frame.         *)
C21_SeedDefinesFrame ==
    /\ (pc = "outer" /\ rounds = 0) =>
          /\ aligning = <<Head(scanners)>>
          /\ pending = Tail(scanners)
          /\ aligned = <<>>
    /\ (rounds = 1 /\ InRound) => aligning_scanner = Head(scanners)
    /\ (aligned # <<>>) =>
          /\ aligned[1] = Head(scanners)
          /\ aligned[1].position = CoordinatesDefault
    /\ (pc = "done" /\ scanners # <<>>) =>
          /\ aligned # <<>>
          /\ \A r \in Range(aligned) :
                \E p \in Range(scanners) : PlacedViewOf(r, p)

(* solve succeeded on three different views: the seed is first in aligned, *)
(* unmoved, and the other two are placed away from it                      *)
C21_Witness ==
    /\ pc = "done"
    /\ IsSome(result)
    /\ Len(aligned) = 3
    /\ aligned[1] = Head(scanners)
    /\ aligned[2].position # CoordinatesDefault
    /\ aligned[3].position # CoordinatesDefault


(* the scanners placed so far: aligned, the reference of the round under   *)
(* way, and the frontier                                                   *)
PlacedSeq ==
    aligned \o (IF InRound THEN <<aligning_scanner>> ELSE <<>>) \o aligning

(* the scanners not placed yet: pending, and inside a round those skipped  *)
(* and the candidate under attempt                                         *)
UnplacedSeq ==
    pending \o (IF InRound THEN skipped ELSE <<>>)
            \o (IF InAttempt THEN <<pending_scanner>> ELSE <<>>)

Count(v, seq) == Cardinality({i \in DOMAIN seq : seq[i] = v})

IsPrefix(s, t) == Len(s) <= Len(t) /\ SubSeq(t, 1, Len(s)) = s

(* C22: once the pools are seeded, a step never moves a scanner backwards. *)
(* aligned only grows, at its end, by the reference of the round; every    *)
(* placed value stays among the placed values as it is (same position,     *)
(* same beacons); the unplaced scanners only become fewer, one at a time,  *)
(* each by a placement entering aligning.                                  *)
C22_PoolsMonotone ==
    [][ (pc # "start") =>
           /\ IsPrefix(aligned, aligned')
           /\ (aligned' # aligned) =>
                 /\ aligned' = Append(aligned, aligning_scanner)
                 /\ aligning' = aligning
           /\ \A v \in Range(PlacedSeq) :
                 Count(v, PlacedSeq) <= Count(v, PlacedSeq')
           /\ \A v \in Range(UnplacedSeq') :
                 Count(v, UnplacedSeq') <= Count(v, UnplacedSeq)
           /\ Len(PlacedSeq') + Len(UnplacedSeq')
                 = Len(PlacedSeq) + Len(UnplacedSeq)
           /\ Len(PlacedSeq') \in {Len(PlacedSeq), Len(PlacedSeq) + 1}
           /\ (Len(PlacedSeq') = Len(PlacedSeq) + 1) =>
                 /\ pc = "ret"
                 /\ aligning' = Append(aligning, Unwrap(ret))
      ]_vars

(* a second placement joins the frontier while the first one waits there   *)
C22_Witness ==
    /\ pc = "inner"
    /\ Len(aligning) = 2
    /\ aligning[1] # aligning[2]
    /\ Len(PlacedSeq) = 3
    /\ UnplacedSeq = <<>>


(* the scanners of aligned and aligning that are placed views of p *)
PlacedViewsOf(p) ==
    Cardinality({i \in DOMAIN aligned : PlacedViewOf(aligned[i], p)})
    + Cardinality({i \in DOMAIN aligning : PlacedViewOf(aligning[i], p)})

(* C23: whenever the condition of the outer loop is evaluated, the three   *)
(* pools hold n scanners in all, and every input scanner is there exactly  *)
(* as often as it is in the input: unplaced in pending, or as a placed     *)
(* view in aligned or aligning.                                            *)
C23_PoolsPartitionInput ==
    (pc = "outer") =>
        /\ Len(aligned) + Len(aligning) + Len(pending) = Len(scanners)
        /\ \A p \in Range(scanners) :
              Count(p, scanners) = Count(p, pending) + PlacedViewsOf(p)
        /\ \A p \in Range(pending) : p \in Range(scanners)

(* the loop condition after a round that placed one scanner and skipped    *)
(* another: one scanner in each pool                                       *)
C23_Witness ==
    /\ pc = "outer"
    /\ Len(aligned) = 1
    /\ Len(aligning) = 1
    /\ Len(pending) = 1
    /\ rounds = 1
    /\ Cardinality(Range(scanners)) = 3


Common(a, b) == Cardinality(a.beacons \cap b.beacons)

(* C24: in every state, each placed scanner other than the seed has at     *)
(* least twelve beacons that are beacons of a scanner placed before it     *)
(* (placed scanners in the order aligned, reference, frontier), and the    *)
(* first placed scanner is the seed: the placed scanners form a tree       *)
(* rooted at the seed with an overlap of twelve on every edge.             *)
C24_PlacedTree ==
    (pc # "start" /\ scanners # <<>>) =>
        /\ PlacedSeq # <<>>
        /\ PlacedSeq[1] = Head(scanners)
        /\ \A i \in 2..Len(PlacedSeq) :
              \E j \in 1..(i - 1) :
                  Common(PlacedSeq[i], PlacedSeq[j]) >= MinOverlap

(* a chain: the third placed scanner overlaps the second and not the seed  *)
C24_Witness ==
    /\ pc = "done"
    /\ Len(PlacedSeq) = 3
    /\ Common(PlacedSeq[3], PlacedSeq[2]) >= 12
    /\ Common(PlacedSeq[3], PlacedSeq[1]) < 12
    /\ Common(PlacedSeq[2], PlacedSeq[1]) >= 12


(* C25: when solve succeeds (on two or more scanners, then), the number of *)
(* unique beacons is at most the sum of the sizes of the input beacon sets *)
(* less twelve for every scanner but the seed, and so is less than the     *)
(* plain sum.                                                              *)
C25_UniqueBeaconBound ==
    (pc = "done" /\ IsSome(result)) =>
        LET n == Len(scanners)
            total == TotalBeacons(scanners, n)
        IN  /\ n >= 2
            /\ Unwrap(result)[1] <= total - 12 * (n - 1)
            /\ Unwrap(result)[1] < total

(* three views of thirteen beacons each, fifteen beacons in all: the bound *)
(* 39 - 24 is reached                                                      *)
C25_Witness ==
    /\ pc = "done"
    /\ IsSome(result)
    /\ Len(scanners) = 3
    /\ TotalBeacons(scanners, 3) = 39
    /\ Unwrap(result)[1] = 15


(* the candidate p in the orientation state k has a qualifying translation *)
(* against s                                                               *)
QualifiesAt(p, s, k) ==
    Translatable(OrientedSet(Orientation[k], p.beacons), s.beacons)

(* C26: align_to starts with its copy of the candidate unturned; each      *)
(* further orientation state is the previous one turned by the next plane  *)
(* of all_rotations, and is reached only when the previous one had no      *)
(* qualifying translation; the call returns from the first state that has  *)
(* one, with the copy in that state moved by a qualifying translation, and *)
(* no state after it is tried.  It returns None only after the last state. *)
C26_FirstQualifyingOrientation ==
    [][ /\ (pc = "inner" /\ pc' = "align") =>
              /\ planes' = 0
              /\ scanner' = pending_scanner'
        /\ (pc = "align") =>
              /\ scanner.beacons =
                    OrientedSet(Orientation[planes], pending_scanner.beacons)
              /\ \A k \in 0..(planes - 1) :
                    ~QualifiesAt(pending_scanner, aligning_scanner, k)
              /\ IF QualifiesAt(pending_scanner, aligning_scanner, planes)
                 THEN /\ pc' = "ret"
                      /\ planes' = planes
                      /\ IsSome(ret')
                      /\ Unwrap(ret') \in
                            {ScannerMoveBy(scanner, t) :
                                t \in Qualifying(scanner.beacons,
                                                 aligning_scanner.beacons)}
                 ELSE IF planes < NumPlanes
                 THEN /\ pc' = "align"
                      /\ planes' = planes + 1
                      /\ scanner' =
                            ScannerRotate(scanner, all_rotations[planes + 1])
                 ELSE /\ pc' = "ret"
                      /\ ret' = None
      ]_vars

(* a placement returned from the orientation state 12, whose repetition,   *)
(* the state 16, would qualify as well and is never reached                *)
C26_Witness ==
    /\ pc = "ret"
    /\ IsSome(ret)
    /\ planes = 12
    /\ QualifiesAt(pending_scanner, aligning_scanner, 16)
    /\ \A k \in 0..11 : ~QualifiesAt(pending_scanner, aligning_scanner, k)


(* the distance of the k-th pair that the flat_map of can_align_to yields  *)
(* for the iteration orders mine and theirs                                *)
DistanceAt(mine, theirs, k) ==
    distance(mine[((k - 1) \div Len(theirs)) + 1],
             theirs[((k - 1) % Len(theirs)) + 1])

(* how many of the first n pairs have the distance d *)
CountUpTo(mine, theirs, d, n) ==
    Cardinality({k \in 1..n : DistanceAt(mine, theirs, k) = d})

(* the place in the iteration of the twelfth pair with the distance d *)
TwelfthPair(mine, theirs, d) ==
    CHOOSE k \in 1..(Len(mine) * Len(theirs)) :
        /\ DistanceAt(mine, theirs, k) = d
        /\ CountUpTo(mine, theirs, d, k) = 12

(* the runs of can_align_to that the last align_to step can have made *)
LastTallies ==
    {[mine |-> HashIter(scanner.beacons), theirs |-> theirs,
      run |-> Tally(HashIter(scanner.beacons), theirs, 1, <<>>)] :
        theirs \in HashOrders(aligning_scanner.beacons)}

(* C27: a can_align_to call that returns Some(t) returns at the pair that  *)
(* brings the tally of t to twelve: the tally of t is exactly 12, every    *)
(* other tally is below 12, and the tallies hold the pairs up to that one  *)
(* and none after it.  Among the translations with twelve or more          *)
(* matching pairs, t is the one whose twelfth pair comes first in the      *)
(* iteration order of the pairs.                                           *)
C27_ReturnsAtTwelfthPair ==
    (pc = "ret" /\ IsSome(ret)) =>
        /\ ShiftOf(Unwrap(ret)) \in {Unwrap(r.run.found) : r \in LastTallies}
        /\ \A r \in LastTallies :
              LET t == Unwrap(r.run.found)
                  n == r.run.examined
                  qualifying == Qualifying(scanner.beacons,
                                           aligning_scanner.beacons)
              IN  /\ IsSome(r.run.found)
                  /\ r.run.counter[t] = 12
                  /\ \A d \in DOMAIN r.run.counter \ {t} :
                        r.run.counter[d] < 12
                  /\ DistanceAt(r.mine, r.theirs, n) = t
                  /\ DOMAIN r.run.counter =
                        {DistanceAt(r.mine, r.theirs, k) : k \in 1..n}
                  /\ \A q \in qualifying :
                        r.run.counter[q] = CountUpTo(r.mine, r.theirs, q, n)
                  /\ t \in qualifying
                  /\ \A q \in qualifying :
                        TwelfthPair(r.mine, r.theirs, t)
                            <= TwelfthPair(r.mine, r.theirs, q)
                  /\ n = TwelfthPair(r.mine, r.theirs, t)

(* several translations qualify, and the two iteration orders of the       *)
(* reference's beacons return different ones, each at its twelfth pair     *)
C27_Witness ==
    /\ pc = "ret"
    /\ IsSome(ret)
    /\ Cardinality(Qualifying(scanner.beacons, aligning_scanner.beacons)) >= 2
    /\ Cardinality({r.run.found : r \in LastTallies}) = 2
    /\ \A r \in LastTallies : r.run.counter[Unwrap(r.run.found)] = 12
    /\ \E r \in LastTallies : r.run.examined < 169


(* the orientations reachable from those of set by composing turns *)
RECURSIVE Generate(_)
Generate(set) ==
    LET more == set \cup {TurnOf(m, plane) : m \in set, plane \in Plane}
    IN  IF more = set THEN set ELSE Generate(more)

GeneratedOrientations == Generate({Identity})

(* the orientation a followed by the orientation b *)
Compose(a, b) == <<Oriented(b, a[1]), Oriented(b, a[2]), Oriented(b, a[3])>>

FourTurns(c, plane) ==
    rotate(rotate(rotate(rotate(c, plane), plane), plane), plane)

RotationGroupFacts ==
    /\ \A m \in GeneratedOrientations :
          /\ m \in SignedUnits \X SignedUnits \X SignedUnits
          /\ Det(m) = 1
          /\ {Oriented(m, u) : u \in SignedUnits} = SignedUnits
    /\ \A a, b \in GeneratedOrientations :
          Compose(a, b) \in GeneratedOrientations
    /\ Cardinality(GeneratedOrientations) = 24
    /\ \A plane \in Plane :
          TurnOf(TurnOf(TurnOf(TurnOf(Identity, plane), plane), plane), plane)
              = Identity

(* C28: every orientation reachable by composing the XY, XZ and YZ turns   *)
(* sends the axes to signed axes, one to one, with determinant +1; the     *)
(* reachable orientations are closed under composition and are 24; a turn  *)
(* made four times is the identity.  The orientation of align_to's copy is *)
(* one of them, and four turns in any plane give every beacon of the copy  *)
(* back.                                                                   *)
C28_RotationGroup ==
    (pc = "align") =>
        /\ RotationGroupFacts
        /\ Orientation[planes] \in GeneratedOrientations
        /\ \A plane \in Plane :
              \A c \in scanner.beacons : FourTurns(c, plane) = c

(* a copy turned in all three planes, in an orientation that is neither    *)
(* the identity nor a single turn                                          *)
C28_Witness ==
    /\ pc = "align"
    /\ planes = NumPlanes
    /\ Orientation[planes] \notin
          {Identity} \cup {TurnOf(Identity, plane) : plane \in Plane}
    /\ Orientation[planes] \in GeneratedOrientations
    /\ scanner.beacons # pending_scanner.beacons
    /\ \A c \in scanner.beacons : FourTurns(c, "XZ") = c


Size(s) == Cardinality(s.beacons)

(* C29: rotate and move_by keep the number of beacons of a scanner.  The   *)
(* copy that align_to turns and the placement it returns have as many      *)
(* beacons as the candidate; one more turn in any plane, or a move by any  *)
(* shift, keeps the number; every placed scanner has as many beacons as    *)
(* the input scanner it is a view of.                                      *)
C29_BeaconCountKept ==
    /\ InAttempt =>
          /\ Size(scanner) = Size(pending_scanner)
          /\ \A plane \in Plane :
                Size(ScannerRotate(scanner, plane)) = Size(scanner)
          /\ \A shift \in aligning_scanner.beacons :
                Size(ScannerMoveBy(scanner, shift)) = Size(scanner)
    /\ (pc = "ret" /\ IsSome(ret)) =>
          Size(Unwrap(ret)) = Size(pending_scanner)
    /\ (pc \in {"outer", "done"}) =>
          \A r \in Range(PlacedSeq) :
              \E p \in Range(scanners) :
                  PlacedViewOf(r, p) /\ Size(r) = Size(p)

(* a placement made after all the turns, by a non-zero shift, still with   *)
(* the candidate's thirteen beacons                                        *)
C29_Witness ==
    /\ pc = "ret"
    /\ IsSome(ret)
    /\ planes = NumPlanes
    /\ Unwrap(ret).position # Zero
    /\ Size(pending_scanner) = 13
    /\ Size(Unwrap(ret)) = 13
    /\ Unwrap(ret).beacons # pending_scanner.beacons


-----------------------------------------------------------------------------
(* Coordinates arithmetic at the width of its i32 fields.  The build       *)
(* profile decides what an overflow does: a panic where overflow checks    *)
(* are on, the wrapped two's complement value where they are off.          *)

MaxI32 == 2147483647
MinI32 == -MaxI32 - 1

Panic == [panic |-> TRUE, value |-> 0]
PanicCoordinates == [panic |-> TRUE, value |-> CoordinatesDefault]
Returned(v) == [panic |-> FALSE, value |-> v]

(* a - b leaves the i32 range *)
SubOverflows(a, b) ==
    \/ b > 0 /\ a < MinI32 + b
    \/ b < 0 /\ a > MaxI32 + b

(* i32 subtraction without overflow checks *)
WrappingSub(a, b) ==
    IF b > 0 /\ a < MinI32 + b THEN ((a - MinI32) + (MaxI32 - b)) + 1
    ELSE IF b < 0 /\ a > MaxI32 + b THEN ((a - MaxI32) - 1) + (MinI32 - b)
    ELSE a - b

(* a + b leaves the i32 range *)
AddOverflows(a, b) ==
    \/ b > 0 /\ a > MaxI32 - b
    \/ b < 0 /\ a < MinI32 - b

(* i32 addition without overflow checks *)
WrappingAdd(a, b) ==
    IF b > 0 /\ a > MaxI32 - b THEN ((a - MaxI32) - 1) + (b + MinI32)
    ELSE IF b < 0 /\ a < MinI32 - b THEN (a - MinI32) + ((b + MaxI32) + 1)
    ELSE a + b

(* i32::abs has no result for i32::MIN *)
AbsOverflows(a) == a = MinI32

(* the absolute value dropped *)
WrappingAbsIdentity(a) == a

(* i32::abs without overflow checks *)
WrappingAbs(a) == IF a = MinI32 THEN MinI32 ELSE Abs(a)

(* what a build can produce for an expression that overflowed or not *)
Checked(overflowed, v, panicked) ==
    IF overflowed THEN {panicked, Returned(v)} ELSE {Returned(v)}

(* Coordinates::distance on i32 *)
distance_i32(self, other) ==
    LET overflowed == \/ SubOverflows(other.x, self.x)
                      \/ SubOverflows(other.y, self.y)
                      \/ SubOverflows(other.z, self.z)
        x == WrappingSub(other.x, self.x)
        y == WrappingSub(other.y, self.y)
        z == WrappingSub(other.z, self.z)
    IN  Checked(overflowed, Coord(x, y, z), PanicCoordinates)

(* Coordinates::manhattan_distance on i32 *)
manhattan_distance_i32(self, other) ==
    LET dx == WrappingSub(other.x, self.x)
        dy == WrappingSub(other.y, self.y)
        dz == WrappingSub(other.z, self.z)
        ax == WrappingAbs(dx)
        ay == WrappingAbs(dy)
        az == WrappingAbs(dz)
        xy == WrappingAdd(ax, ay)
        overflowed == \/ SubOverflows(other.x, self.x)
                      \/ SubOverflows(other.y, self.y)
                      \/ SubOverflows(other.z, self.z)
                      \/ AbsOverflows(dx)
                      \/ AbsOverflows(dy)
                      \/ AbsOverflows(dz)
                      \/ AddOverflows(ax, ay)
                      \/ AddOverflows(xy, az)
    IN  Checked(overflowed, WrappingAdd(xy, az), Panic)

(* coordinates at and around the ends of the i32 range *)
I32Samples == {MinI32, -1, 0, 1073741824, MaxI32}
SmallSamples == {-1, 0, 1073741824}
SampleCoordinates ==
    {Coord(x, y, z) : x \in I32Samples, y \in SmallSamples, z \in SmallSamples}

solve_vars == <<scanners, aligned, aligning, pending, skipped,
                aligning_scanner, pending_scanner, scanner, planes, ret,
                result, pc, rounds, attempts>>

InitDistance ==
    /\ scanners = <<>>
    /\ aligned = <<>>
    /\ aligning = <<>>
    /\ pending = <<>>
    /\ skipped = <<>>
    /\ aligning_scanner = NoScanner
    /\ pending_scanner = NoScanner
    /\ scanner = NoScanner
    /\ planes = 0
    /\ ret = None
    /\ result = None
    /\ pc = "coordinates"
    /\ rounds = 0
    /\ attempts = 0
    /\ measure \in [self : SampleCoordinates, other : SampleCoordinates,
                    distance : {None}, manhattan_distance : {None}]

(* self.distance(&other) *)
CallDistance ==
    /\ pc = "coordinates"
    /\ measure.distance = None
    /\ \E out \in distance_i32(measure.self, measure.other) :
            measure' = [measure EXCEPT !.distance = Some(out)]
    /\ UNCHANGED solve_vars

(* self.manhattan_distance(&other) *)
CallManhattanDistance ==
    /\ pc = "coordinates"
    /\ measure.manhattan_distance = None
    /\ \E out \in manhattan_distance_i32(measure.self, measure.other) :
            measure' = [measure EXCEPT !.manhattan_distance = Some(out)]
    /\ UNCHANGED solve_vars

NextDistance == CallDistance \/ CallManhattanDistance

SpecDistance == InitDistance /\ [][NextDistance]_vars

-----------------------------------------------------------------------------
(* C30 *)

(* every component difference other - self is an i32 *)
DifferencesFit(self, other) ==
    /\ ~SubOverflows(other.x, self.x)
    /\ ~SubOverflows(other.y, self.y)
    /\ ~SubOverflows(other.z, self.z)

(* the sum of the absolute differences is an i32, and so is every step *)
SumFits(self, other) ==
    /\ DifferencesFit(self, other)
    /\ other.x - self.x # MinI32
    /\ other.y - self.y # MinI32
    /\ other.z - self.z # MinI32
    /\ Abs(other.x - self.x) <= MaxI32 - Abs(other.y - self.y)
    /\ Abs(other.x - self.x) + Abs(other.y - self.y)
          <= MaxI32 - Abs(other.z - self.z)

ManhattanCalled ==
    /\ pc = "coordinates"
    /\ IsSome(measure.manhattan_distance)

DistanceCalled ==
    /\ pc = "coordinates"
    /\ IsSome(measure.distance)

(* the returned value is a metric and the sum of the absolute components *)
MetricValue(out, self, other) ==
    /\ ~out.panic
    /\ out.value >= 0
    /\ manhattan_distance_i32(other, self) = {out}
    /\ (out.value = 0) <=> (self = other)
    /\ SumFits(self, other)
    /\ \E d \in distance_i32(self, other) :
          /\ ~d.panic
          /\ out.value = Abs(d.value.x) + Abs(d.value.y) + Abs(d.value.z)

(* a wrapped difference has the sign opposite to the order of its operands *)
WrongSign(a, b, d) == (a >= b) # (d >= 0)

(* C30 as stated: whenever the three component differences fit in an i32, *)
(* manhattan_distance is non-negative, symmetric, zero exactly for equal  *)
(* coordinates and the sum of the absolute components of distance.        *)
C30_DifferencesFitSuffice ==
    (ManhattanCalled /\ DifferencesFit(measure.self, measure.other))
        => MetricValue(Unwrap(measure.manhattan_distance),
                       measure.self, measure.other)

(* C30, amended: manhattan_distance is non-negative, symmetric, zero      *)
(* exactly for equal coordinates and the sum of the absolute components   *)
(* of distance whenever every difference fits in an i32, none of them is  *)
(* i32::MIN and the sum of their absolute values is at most i32::MAX.     *)
(* Outside that range the subtraction, the abs or the addition overflows: *)
(* the call panics or returns the wrapped value, and a difference that    *)
(* does not fit makes distance panic or return a component of the wrong   *)
(* sign.                                                                  *)
C30_ManhattanMetricInRange ==
    /\ ManhattanCalled =>
          LET self == measure.self
              other == measure.other
              out == Unwrap(measure.manhattan_distance)
          IN  /\ SumFits(self, other) => MetricValue(out, self, other)
              /\ ~SumFits(self, other) =>
                    /\ Panic \in manhattan_distance_i32(self, other)
                    /\ Cardinality(manhattan_distance_i32(self, other)) = 2
                    /\ out.panic \/ ~DifferencesFit(self, other)
                          \/ out.value = MinI32
                          \/ out.value < WrappingAbs(other.x - self.x)
                          \/ out.value < WrappingAbs(other.y - self.y)
                          \/ out.value < WrappingAbs(other.z - self.z)
    /\ DistanceCalled =>
          LET self == measure.self
              other == measure.other
              d == Unwrap(measure.distance)
          IN  IF DifferencesFit(self, other)
              THEN d = Returned(distance(self, other))
              ELSE \/ d.panic
                   \/ /\ SubOverflows(other.x, self.x)
                      /\ WrongSign(other.x, self.x, d.value.x)
                   \/ /\ SubOverflows(other.y, self.y)
                      /\ WrongSign(other.y, self.y, d.value.y)
                   \/ /\ SubOverflows(other.z, self.z)
                      /\ WrongSign(other.z, self.z, d.value.z)

(* both calls returned for coordinates in range with a negative difference *)
C30_Witness ==
    /\ ManhattanCalled
    /\ DistanceCalled
    /\ SumFits(measure.self, measure.other)
    /\ measure.other.x < measure.self.x
    /\ measure.self.y # measure.other.y
    /\ Unwrap(measure.manhattan_distance).value > 1073741824
    /\ Unwrap(measure.distance).value.x < 0

====
